---- MODULE Spec2Model ----
(***************************************************************************)
(* Model of the /v1/chat handler of rag_fastapi (app/api/route_chats.py)   *)
(* together with the pure helpers it calls (app/services/prompt_service.py *)
(* and app/services/rag_services.py).                                      *)
(*                                                                         *)
(* One user document of the "messages" collection is modelled.  Every     *)
(* `await col.<op>` of the handler is one atomic step on that document;   *)
(* several requests of the same user may be between two awaits at the     *)
(* same time (FastAPI runs each request as its own coroutine).            *)
(*                                                                         *)
(* Text is a sequence of one-character strings.  Money is counted in      *)
(* units of 1e-8 USD, in which the three per-token rates are integers.    *)
(***************************************************************************)
EXTENDS Integers, Sequences, FiniteSets, TLC

\* ------------------------------------------------------------------ bounds
\* Number of requests received in one behaviour.
MaxRequests == 2

\* Longest text is_greeting is applied to on its own, the examples aside.
MaxTextLen == 3

\* The request coroutines that may be in flight at once. The handler's races
\* are between two requests of the same user.
Procs == {1, 2}

\* --------------------------------------------------------- program constants
DEFAULT_ROLE == "Help Desk Specialist"
DEFAULT_TONE == "Friendly"
DEFAULT_LENGTH == "Short"

MAX_MESSAGES_STORE == 300
HISTORY_FOR_LLM == 50

\* USD per token, in units of 1e-8 USD (0.02, 0.15 and 0.60 USD per million).
EMB_RATE == 2
CHAT_IN_RATE == 15
CHAT_OUT_RATE == 60

\* settings.DEFAULT_SCORE_THRESHOLD = 0.25, scores in hundredths.
DEFAULT_SCORE_THRESHOLD == 25

\* ------------------------------------------------------------------- text
\* T("hi") is written <<"h","i">>.
NoText == <<>>

UpperToLower ==
  [c \in {"A", "B", "E", "H", "I", "L", "O", "Q"} |->
     CASE c = "A" -> "a" [] c = "B" -> "b" [] c = "E" -> "e" [] c = "H" -> "h"
       [] c = "I" -> "i" [] c = "L" -> "l" [] c = "O" -> "o" [] c = "Q" -> "q"]

LowerLetters ==
  {"a", "b", "c", "d", "e", "f", "g", "h", "i", "j", "k", "l", "m", "n", "o",
   "p", "q", "r", "s", "t", "u", "v", "w", "x", "y", "z"}
Letters == LowerLetters \cup DOMAIN UpperToLower
Digits == {"0", "1"}
\* \s of the regular expressions and of str.split / str.strip
SpaceChars == {" "}
\* \w of the regular expressions
WordChars == Letters \cup Digits \cup {"_"}

LowerChar(c) == IF c \in DOMAIN UpperToLower THEN UpperToLower[c] ELSE c

\* str.lower()
Lower(s) == [i \in 1..Len(s) |-> LowerChar(s[i])]

RECURSIVE LStripSet(_, _)
LStripSet(s, cs) ==
  IF s # <<>> /\ Head(s) \in cs THEN LStripSet(Tail(s), cs) ELSE s

RECURSIVE RStripSet(_, _)
RStripSet(s, cs) ==
  IF s # <<>> /\ s[Len(s)] \in cs
  THEN RStripSet(SubSeq(s, 1, Len(s) - 1), cs) ELSE s

\* str.strip(chars)
StripSet(s, cs) == RStripSet(LStripSet(s, cs), cs)

\* str.strip()
Strip(s) == StripSet(s, SpaceChars)

IsWordOrSpace(c) == c \in WordChars \/ c \in SpaceChars

\* re.sub(r"[^\w\s]", "", t)
RemovePunct(s) == SelectSeq(s, IsWordOrSpace)

\* re.sub(r"\s+", " ", t)
RECURSIVE CollapseSpaces(_)
CollapseSpaces(s) ==
  IF s = <<>> THEN <<>>
  ELSE IF Head(s) \in SpaceChars
       THEN <<" ">> \o CollapseSpaces(LStripSet(Tail(s), SpaceChars))
       ELSE <<Head(s)>> \o CollapseSpaces(Tail(s))

\* str.startswith
StartsWith(s, p) == Len(p) <= Len(s) /\ SubSeq(s, 1, Len(p)) = p

\* str.split(): the maximal runs of non-whitespace characters
RECURSIVE TakeToken(_)
TakeToken(s) ==
  IF s = <<>> \/ Head(s) \in SpaceChars THEN <<>>
  ELSE <<Head(s)>> \o TakeToken(Tail(s))

RECURSIVE Split(_)
Split(s) ==
  LET t == LStripSet(s, SpaceChars) IN
  IF t = <<>> THEN <<>>
  ELSE LET tok == TakeToken(t) IN
       <<tok>> \o Split(SubSeq(t, Len(tok) + 1, Len(t)))

\* ------------------------------------------------------ prompt_service.py
GREETINGS ==
  { <<"h","i">>, <<"h","i","i">>, <<"h","i","i","i">>,
    <<"h","e","l","l","o">>, <<"h","e","y">>, <<"h","e","y","y">>,
    <<"h","o","l","a">>,
    <<"g","o","o","d"," ","m","o","r","n","i","n","g">>,
    <<"g","o","o","d"," ","a","f","t","e","r","n","o","o","n">>,
    <<"g","o","o","d"," ","e","v","e","n","i","n","g">>,
    <<"n","a","m","a","s","t","e">>, <<"y","o">> }

norm(text) == Strip(CollapseSpaces(RemovePunct(Lower(Strip(text)))))

\* Mutant: only the exact phrases are greetings.
is_greeting_exact(t0) == norm(t0) \in GREETINGS

is_greeting(text) ==
  LET t == norm(text) IN
  IF t = <<>> THEN FALSE
  ELSE IF t \in GREETINGS THEN TRUE
  ELSE \E g \in GREETINGS : StartsWith(t, g \o <<" ">>)

\* fallback_not_found: the four fixed replies (texts abbreviated)
FALLBACK_MINIMAL == "Sorry - I couldn't find this information in your saved website data."
FALLBACK_SHORT == "I'm sorry, I couldn't find that information in the data I have saved for this website."
FALLBACK_LONG == "I'm sorry - I couldn't locate an answer to that in the website data currently saved."
FALLBACK_CHATTY == "Hmm - I couldn't find a clear answer to that in the website data I currently have saved."

\* A missing (None) or empty setting value is "", which is falsy in Python.
\* Setting values of the model carry no surrounding whitespace, so .strip()
\* leaves them as they are.
OrDefault(v, d) == IF v = "" THEN d ELSE v

fallback_not_found(length) ==
  LET l == OrDefault(length, "Short") IN
  IF l = "Minimal" THEN <<FALLBACK_MINIMAL>>
  ELSE IF l = "Short" THEN <<FALLBACK_SHORT>>
  ELSE IF l = "Long" THEN <<FALLBACK_LONG>>
  ELSE <<FALLBACK_CHATTY>>

LENGTH_SETTINGS ==
  [l \in {"Minimal", "Short", "Long", "Chatty"} |->
     CASE l = "Minimal" -> [max_out |-> 120]
       [] l = "Short" -> [max_out |-> 220]
       [] l = "Long" -> [max_out |-> 520]
       [] l = "Chatty" -> [max_out |-> 850]]

LENGTH_TO_CONTEXT ==
  [l \in {"Minimal", "Short", "Long", "Chatty"} |->
     CASE l = "Minimal" -> 2500 [] l = "Short" -> 4000
       [] l = "Long" -> 6500 [] l = "Chatty" -> 8500]

LENGTH_TO_TOPK ==
  [l \in {"Minimal", "Short", "Long", "Chatty"} |->
     CASE l = "Minimal" -> 4 [] l = "Short" -> 5
       [] l = "Long" -> 6 [] l = "Chatty" -> 7]

\* dict.get(key, default)
DictGet(d, k, default) == IF k \in DOMAIN d THEN d[k] ELSE default

ROLE_PROMPTS == {"Help Desk Specialist", "Client Service Representative",
                 "Technical Support Agent"}
TONE_GUIDE == {"Friendly", "Professional", "Casual"}

\* _normalize_tones for a single tone value (no "," or "|" inside it, and
\* written in the letter case of the keys): the key of TONE_GUIDE it names,
\* else ["Friendly"].
normalize_tones(tone) ==
  IF tone = "" THEN <<"Friendly">>
  ELSE IF tone \in TONE_GUIDE THEN <<tone>>
  ELSE <<"Friendly">>

\* build_system_prompt: the prompt is a fixed text around the clamped role,
\* the tone list and the clamped length, which are what is kept here.
build_system_prompt(s) ==
  LET role0 == OrDefault(s.role, "Help Desk Specialist")
      len0 == OrDefault(s.length, "Short")
  IN [role |-> IF role0 \in ROLE_PROMPTS THEN role0 ELSE "Help Desk Specialist",
      tones |-> normalize_tones(s.tone),
      length |-> IF len0 \in DOMAIN LENGTH_SETTINGS THEN len0 ELSE "Short"]

GREET_PROFESSIONAL == "Hello! How may I assist you today?"
GREET_CASUAL == "Hey! What can I help you with?"
GREET_FRIENDLY == "Hi! How can I help you today?"
GREET_MORE_SHORT == " Ask me anything about the website data."
GREET_MORE_LONG == "You can ask things like: 1) Pricing 2) Policies 3) Setup"
GREET_MORE_CHATTY == "Tell me what you want to know and I'll guide you."

greeting_reply(role, tone, length) ==
  LET tone_key == OrDefault(tone, "Friendly")
      base == IF tone_key = "Professional" THEN GREET_PROFESSIONAL
              ELSE IF tone_key = "Casual" THEN GREET_CASUAL
              ELSE GREET_FRIENDLY
      length_key == OrDefault(length, "Short")
  IN IF length_key = "Minimal" THEN <<base>>
     ELSE IF length_key = "Short" THEN <<base, GREET_MORE_SHORT>>
     ELSE IF length_key = "Long" THEN <<base, GREET_MORE_LONG>>
     ELSE <<base, GREET_MORE_CHATTY>>

\* -------------------------------------------------- route_chats.py: email
EMAIL_STRIP_CHARS == {".", ",", ";", ":", "(", ")", "[", "]", "<", ">", "\"", "'"}
EmailSepChars == {".", "_", "-"}
EmailLocalChars == Letters \cup Digits \cup EmailSepChars
EmailLabelChars == Letters \cup Digits \cup {"-"}

AllIn(s, cs) == \A i \in 1..Len(s) : s[i] \in cs

\* The parts of s between the occurrences of c.
RECURSIVE TakeUntil(_, _)
TakeUntil(s, c) ==
  IF s = <<>> \/ Head(s) = c THEN <<>> ELSE <<Head(s)>> \o TakeUntil(Tail(s), c)

RECURSIVE SplitOn(_, _)
SplitOn(s, c) ==
  LET part == TakeUntil(s, c) IN
  IF Len(part) = Len(s) THEN <<part>>
  ELSE <<part>> \o SplitOn(SubSeq(s, Len(part) + 2, Len(s)), c)

\* EMAIL_REGEX.match(token)
EMAIL_REGEX_match(tok) ==
  LET halves == SplitOn(tok, "@") IN
  /\ Len(halves) = 2
  /\ LET local == halves[1]
         labels == SplitOn(halves[2], ".")
     IN /\ tok[1] \notin EmailSepChars
        /\ \A i \in 1..(Len(tok) - 1) :
             ~(tok[i] \in EmailSepChars /\ tok[i + 1] \in EmailSepChars)
        /\ Len(local) \in 1..64
        /\ AllIn(local, EmailLocalChars)
        /\ local[Len(local)] \notin EmailSepChars
        /\ halves[2] # <<>>
        /\ halves[2][1] # "-"
        /\ Len(labels) >= 2
        /\ \A i \in 1..(Len(labels) - 1) :
             Len(labels[i]) \in 1..63 /\ AllIn(labels[i], EmailLabelChars)
        /\ Len(labels[Len(labels)]) \in 2..63
        /\ AllIn(labels[Len(labels)], Letters)

RECURSIVE FirstEmail(_)
FirstEmail(tokens) ==
  IF tokens = <<>> THEN NoText
  ELSE LET token == StripSet(Head(tokens), EMAIL_STRIP_CHARS) IN
       IF token # <<>> /\ EMAIL_REGEX_match(token) THEN Lower(token)
       ELSE FirstEmail(Tail(tokens))

\* extract_email_from_text; None is NoText
extract_email_from_text(text) ==
  IF text = <<>> \/ ~(\E i \in 1..Len(text) : text[i] = "@") THEN NoText
  ELSE FirstEmail(Split(text))

\* ------------------------------------------------------- rag_services.py
calc_cost(emb_tokens, chat_in, chat_out) ==
  emb_tokens * EMB_RATE + chat_in * CHAT_IN_RATE + chat_out * CHAT_OUT_RATE

CONTEXT_SEP == <<"\n", "\n", "-", "-", "-", "\n", "\n">>
CONTEXT_TRUNCATED == <<"\n", "\n", "[", "t", "r", "u", "n", "c", "a", "t", "e", "d", "]">>

\* extract_text_from_metadata, for the metadata text of a match
extract_text_from_metadata(md_text) == Strip(md_text)

RECURSIVE Join(_, _)
Join(chunks, sep) ==
  IF chunks = <<>> THEN <<>>
  ELSE IF Len(chunks) = 1 THEN chunks[1]
  ELSE chunks[1] \o sep \o Join(Tail(chunks), sep)

\* `top_k = LENGTH_TO_TOPK.get(length, 5)`
top_k(length) == DictGet(LENGTH_TO_TOPK, length, 5)

\* `max_context_chars = LENGTH_TO_CONTEXT.get(length, 6000)`
max_context_chars(length) == DictGet(LENGTH_TO_CONTEXT, length, 6000)

\* retrieve_context after both remote calls have returned: matches is what
\* the index answered for top_k, emb_tokens what the embedding call counted.
\* base_url and sources are built there too; this handler reads neither.
retrieve_context(length, score_threshold, emb_tokens, matches) ==
  LET k == top_k(length)
      got == SubSeq(matches, 1, IF Len(matches) < k THEN Len(matches) ELSE k)
      IsKept(m) == m.score >= score_threshold
      filtered == SelectSeq(got, IsKept)
      HasText(m) == extract_text_from_metadata(m.text) # <<>>
      withText == SelectSeq(filtered, HasText)
      chunks == [i \in 1..Len(withText) |-> extract_text_from_metadata(withText[i].text)]
      context == Join(chunks, CONTEXT_SEP)
  IN [context |-> IF Len(context) > max_context_chars(length)
                  THEN SubSeq(context, 1, max_context_chars(length)) \o CONTEXT_TRUNCATED
                  ELSE context,
      emb_tokens |-> emb_tokens,
      retrieved_cnt |-> Len(filtered),
      missing_text_cnt |-> Len(filtered) - Len(withText)]

\* ------------------------------------------------- route_chats.py: store
NUDGE == "If you'd like updates, summaries, or want to add another email, feel free to share your email"
SETTINGS_SAVED == "Settings saved successfully."
LLM_ANSWER == "<completion of the chat model>"

ZeroUsage ==
  [emb_tokens |-> 0, chat_in_tokens |-> 0, chat_out_tokens |-> 0,
   total_tokens |-> 0, total_cost_usd |-> 0]

DefaultSettings ==
  [role |-> DEFAULT_ROLE, tone |-> DEFAULT_TONE, length |-> DEFAULT_LENGTH]

\* No document with this _id in the collection.
NoDoc ==
  [exists |-> FALSE, messages |-> <<>>, settings |-> DefaultSettings,
   usage |-> ZeroUsage, mail |-> <<>>, first_reply_done |-> FALSE]

\* ensure_user_doc: upsert with $setOnInsert (updated_at is read nowhere and
\* is left out of the document).
ensure_user_doc(d) ==
  IF d.exists THEN d
  ELSE [exists |-> TRUE, messages |-> <<>>, settings |-> DefaultSettings,
        usage |-> ZeroUsage, mail |-> <<>>, first_reply_done |-> FALSE]

\* Mutant: reset by replacing the document with a fresh default one.
reset_user_to_default(d) ==
  IF ~d.exists THEN d
  ELSE [d EXCEPT !.messages = <<>>, !.usage = ZeroUsage,
                 !.first_reply_done = FALSE, !.settings = DefaultSettings]

\* update_one without upsert changes nothing when no document matches.
reset_user(d) ==
  IF ~d.exists THEN d
  ELSE [d EXCEPT !.messages = <<>>, !.usage = ZeroUsage,
                 !.first_reply_done = FALSE]

\* $slice: -n keeps the last n elements
SliceLast(s, n) == IF Len(s) <= n THEN s ELSE SubSeq(s, Len(s) - n + 1, Len(s))

Msg(role, content, t) ==
  [role |-> role, content |-> content, base_url |-> "None", created_at |-> t]

\* Mutant: the filter matches no document, nothing is pushed.
push_msg_no_match(d, role, content, t) == d

\* Mutant: `$slice: MAX_MESSAGES_STORE` (the first entries are kept).
push_msg_slice_first(d, role, content, t) ==
  IF ~d.exists THEN d
  ELSE [d EXCEPT !.messages =
          LET all == Append(d.messages, Msg(role, content, t)) IN
          IF Len(all) <= MAX_MESSAGES_STORE THEN all
          ELSE SubSeq(all, 1, MAX_MESSAGES_STORE)]

push_msg(d, role, content, t) ==
  IF ~d.exists THEN d
  ELSE [d EXCEPT !.messages =
          SliceLast(Append(d.messages, Msg(role, content, t)), MAX_MESSAGES_STORE)]

\* Mutant: `$push` in place of `$addToSet`.
add_mail_push(d, email) ==
  IF ~d.exists THEN d ELSE [d EXCEPT !.mail = Append(d.mail, email)]

\* $addToSet on the mail array
add_mail(d, email) ==
  IF ~d.exists THEN d
  ELSE IF \E i \in 1..Len(d.mail) : d.mail[i] = email THEN d
  ELSE [d EXCEPT !.mail = Append(d.mail, email)]

set_settings(d, role, tone, length) ==
  IF ~d.exists THEN d
  ELSE [d EXCEPT !.settings = [role |-> role, tone |-> tone, length |-> length]]

set_first_reply_done(d) ==
  IF ~d.exists THEN d ELSE [d EXCEPT !.first_reply_done = TRUE]

set_usage(d, u) == IF ~d.exists THEN d ELSE [d EXCEPT !.usage = u]

\* ---------------------------------------------------------------- inputs
HI == <<"h", "i">>
QUESTION == <<"q">>
HI_MAIL == <<"h", "i", " ", "a", "@", "b", ".", "i", "o">>

\* "o@b.io": a message that is a second email address
MAIL_2 == <<"o", "@", "b", ".", "i", "o">>

\* "hi A@b.io": HI_MAIL with the address in another letter case
MAIL_UPPER == <<"h", "i", " ", "A", "@", "b", ".", "i", "o">>

\* Messages of chat requests.
ChatTexts == {HI, QUESTION, HI_MAIL}

\* role, tone and length of settings requests: a complete triple and one
\* with the tone missing.
SettingsInputs ==
  { [role |-> "Technical Support Agent", tone |-> "Casual", length |-> "Long"],
    [role |-> "Technical Support Agent", tone |-> "", length |-> "Long"] }

\* No role, tone or length given.
NoSettings == [role |-> "", tone |-> "", length |-> ""]

\* A triple none of whose values is a key of ROLE_PROMPTS, TONE_GUIDE or
\* LENGTH_SETTINGS; the handler stores whatever strings it is sent.
UNKNOWN_SETTINGS == [role |-> "Pirate", tone |-> "Grumpy", length |-> "Huge"]

\* What the handler reads of a ChatRequest: message, reset, role, tone, length.
ChatRequest(m, r, st) ==
  [message |-> m, reset |-> r, role |-> st.role, tone |-> st.tone,
   length |-> st.length]

\* Chat turns and settings requests; one chat turn and one settings request
\* also come with the reset flag.
Requests ==
  { ChatRequest(m, FALSE, NoSettings) : m \in ChatTexts \cup {MAIL_2, MAIL_UPPER} }
  \cup { ChatRequest(NoText, FALSE, st) : st \in SettingsInputs \cup {UNKNOWN_SETTINGS} }
  \cup { ChatRequest(QUESTION, TRUE, NoSettings),
         ChatRequest(NoText, TRUE, [role |-> "Technical Support Agent",
                                    tone |-> "Casual", length |-> "Long"]) }

\* Token counts the embedding and the chat model report.
EmbTokenVals == {2}
ChatInVals == {5}
ChatOutVals == {3}

\* Answers of the vector index: nothing, a match under the threshold, a
\* match without text, a usable match.
MatchSets ==
  { <<>>,
    << [score |-> 10, text |-> <<"c">>] >>,
    << [score |-> 90, text |-> <<" ">>] >>,
    << [score |-> 90, text |-> <<"c">>] >> }

\* Outcomes of the two remote calls of retrieve_context.
RetrieveOutcomes ==
  { [kind |-> "embed_fails", emb_tokens |-> 0, matches |-> <<>>] }
  \cup { [kind |-> "index_fails", emb_tokens |-> e, matches |-> <<>>] :
           e \in EmbTokenVals }
  \cup { [kind |-> "ok", emb_tokens |-> e, matches |-> m] :
           e \in EmbTokenVals, m \in MatchSets }

\* Outcomes of the chat completion call of answer_with_llm.
LlmOutcomes ==
  { [kind |-> "llm_fails", in_tok |-> 0, out_tok |-> 0] }
  \cup { [kind |-> "ok", in_tok |-> i, out_tok |-> o] :
           i \in ChatInVals, o \in ChatOutVals }

\* ----------------------------------------------------------------- state
VARIABLES
  doc,        \* the user's document in the collection
  clock,      \* now()
  pc,         \* per request coroutine: the await it is suspended at
  req,        \* per coroutine: the request it handles
  loc,        \* per coroutine: the handler's local variables
  resp,       \* per coroutine: the response (or error) it has returned
  calls,      \* per coroutine: remote calls made in this turn
  pushed,     \* per coroutine: role and time of the messages pushed in this turn
  nReceived,  \* requests received so far
  returned,   \* sums of the token counts the remote calls have returned
  written,    \* sums of the token counts the turns have written to usage
              \* since the latest reset_user
  nudges,     \* replies that had the nudge sentence appended
  lastReset,  \* now() of the latest reset_user, -1 when none has run
  arg,        \* the argument of a call of is_greeting on its own
  verdict     \* what that call returned ("True", "False"), "none" before it

vars == <<doc, clock, pc, req, loc, resp, calls, pushed, nReceived, returned,
          written, nudges, lastReset, arg, verdict>>

NoReq == [message |-> NoText, reset |-> FALSE, role |-> "", tone |-> "", length |-> ""]
NoLlmCall == [made |-> FALSE, system_prompt |-> build_system_prompt(NoSettings),
              history |-> <<>>, max_out |-> 0]
NoLoc ==
  [message |-> NoText, usage |-> ZeroUsage, settings |-> NoSettings,
   r |-> [context |-> <<>>, emb_tokens |-> 0],
   retrieval |-> [top_k |-> 0, max_context_chars |-> 0], answer |-> <<>>,
   in_tok |-> 0, out_tok |-> 0, path |-> "none", flag |-> FALSE,
   llm |-> NoLlmCall]
ResponseUsage(u) ==
  [emb_tokens |-> u.emb_tokens, chat_in_tokens |-> u.chat_in_tokens,
   chat_out_tokens |-> u.chat_out_tokens, total_cost_usd |-> u.total_cost_usd]
NoResp ==
  [status |-> 0, mode |-> "", answer |-> <<>>, usage |-> ResponseUsage(ZeroUsage),
   effective_settings |-> NoSettings]
ErrorResp(status) == [NoResp EXCEPT !.status = status]
NoCalls == [embed |-> 0, index |-> 0, llm |-> 0]
NoTokens == [emb_tokens |-> 0, chat_in_tokens |-> 0, chat_out_tokens |-> 0]

\* The document left by n earlier turns whose embedding call failed: each
\* pushed its user message and nothing else.
DocAfterFailedTurns(n) ==
  [exists |-> TRUE,
   messages |-> [i \in 1..n |-> Msg("user", QUESTION, i)],
   settings |-> DefaultSettings, usage |-> ZeroUsage, mail |-> <<>>,
   first_reply_done |-> FALSE]

\* The handler before any request, for a user whose stored document is d
\* at time t.
InitWith(d, t) ==
  /\ doc = d
  /\ clock = t
  /\ pc = [p \in Procs |-> "idle"]
  /\ req = [p \in Procs |-> NoReq]
  /\ loc = [p \in Procs |-> NoLoc]
  /\ resp = [p \in Procs |-> NoResp]
  /\ calls = [p \in Procs |-> NoCalls]
  /\ pushed = [p \in Procs |-> <<>>]
  /\ nReceived = 0
  /\ returned = NoTokens
  /\ written = NoTokens
  /\ nudges = 0
  /\ lastReset = -1
  /\ arg = NoText
  /\ verdict = "none"

\* A user never seen before.
Init == InitWith(NoDoc, 0)

\* The document of a new user after one finished no-context turn whose
\* embedding call counted the tokens of EmbTokenVals.
DocAfterNoContextTurn ==
  LET e == CHOOSE t \in EmbTokenVals : TRUE IN
  [exists |-> TRUE,
   messages |-> << Msg("user", QUESTION, 1),
                   Msg("assistant", fallback_not_found(DEFAULT_LENGTH) \o <<NUDGE>>, 2) >>,
   settings |-> DefaultSettings,
   usage |-> [ZeroUsage EXCEPT !.emb_tokens = e, !.total_tokens = e,
                               !.total_cost_usd = calc_cost(e, 0, 0)],
   mail |-> <<>>, first_reply_done |-> TRUE]

\* A user with usage on record: one no-context turn has been answered.
InitUsed ==
  /\ doc = DocAfterNoContextTurn
  /\ clock = 2
  /\ pc = [p \in Procs |-> "idle"]
  /\ req = [p \in Procs |-> NoReq]
  /\ loc = [p \in Procs |-> NoLoc]
  /\ resp = [p \in Procs |-> NoResp]
  /\ calls = [p \in Procs |-> NoCalls]
  /\ pushed = [p \in Procs |-> <<>>]
  /\ nReceived = 0
  /\ returned = [NoTokens EXCEPT !.emb_tokens = doc.usage.emb_tokens]
  /\ written = [NoTokens EXCEPT !.emb_tokens = doc.usage.emb_tokens]
  /\ nudges = 1
  /\ lastReset = -1
  /\ arg = NoText
  /\ verdict = "none"

\* A user whose message list is one short of the cap.
InitLong ==
  InitWith(DocAfterFailedTurns(MAX_MESSAGES_STORE - 1), MAX_MESSAGES_STORE - 1)

\* ------------------------------------------------------- chat(): routing
\* `if not (req.role and req.tone and req.length)`
settings_complete(rq) == rq.role # "" /\ rq.tone # "" /\ rq.length # ""

\* Where the handler goes after ensure_user_doc and the optional reset:
\* the settings branch (or its 400) when the stripped message is empty,
\* else the chat turn.
after_reset_pc(rq) ==
  IF Strip(rq.message) = <<>>
  THEN IF settings_complete(rq) THEN "save_settings" ELSE "done"
  ELSE "push_user"

after_reset_resp(rq) ==
  IF after_reset_pc(rq) = "done" THEN ErrorResp(400) ELSE NoResp

\* Mutant: the greeting check is skipped and every message is retrieved for.
after_mail_pc_no_shortcut(message) == "read_doc"

\* Where the chat turn goes once the user message (and its email) is stored.
after_mail_pc(message) ==
  IF is_greeting(message) THEN "nudge_read" ELSE "read_doc"

after_mail_loc(l) ==
  IF is_greeting(l.message)
  THEN [l EXCEPT !.answer = greeting_reply(DEFAULT_ROLE, DEFAULT_TONE, DEFAULT_LENGTH),
                 !.path = "greeting"]
  ELSE l

\* ----------------------------------------------------- chat(): accounting
\* usage["emb_tokens"] += ...; usage["total_cost_usd"] += calc_cost(emb_tokens=...)
usage_after_retrieval(u, emb_tokens) ==
  [u EXCEPT !.emb_tokens = @ + emb_tokens,
            !.total_cost_usd = @ + calc_cost(emb_tokens, 0, 0)]

\* usage["total_tokens"] = emb + chat_in + chat_out
usage_with_total(u) ==
  [u EXCEPT !.total_tokens = u.emb_tokens + u.chat_in_tokens + u.chat_out_tokens]

\* Mutant: the chat tokens are counted and their cost is not added.
usage_after_llm_no_cost(u, in_tok, out_tok) ==
  usage_with_total([u EXCEPT !.chat_in_tokens = @ + in_tok,
                             !.chat_out_tokens = @ + out_tok])

usage_after_llm(u, in_tok, out_tok) ==
  [usage_with_total([u EXCEPT !.chat_in_tokens = @ + in_tok,
                              !.chat_out_tokens = @ + out_tok])
     EXCEPT !.total_cost_usd = @ + calc_cost(0, in_tok, out_tok)]

\* The usage a no-context turn writes: the total is recomputed just before
\* the write.
\* Mutant: the no-context branch writes usage without recomputing the total.
usage_no_context_stale(u) == u

usage_no_context(u) == usage_with_total(u)

\* What answer_with_llm sends: `last_msgs = history[-6:]`.
llm_history(history) == SliceLast(history, 6)

\* `doc["settings"]` of the document the RAG flow has read.
\* Mutant: the RAG flow works with the hard defaults.
stored_settings_default(d) == DefaultSettings

stored_settings(d) == d.settings

\* ---------------------------------------------------------------- actions
\* A request arrives; `await ensure_user_doc(col, user_id)`. Coroutines are
\* interchangeable: the request takes the first one that is free.
Receive(p, rq) ==
  /\ pc[p] \in {"idle", "done"}
  /\ \A q \in Procs : q < p => pc[q] \notin {"idle", "done"}
  /\ nReceived < MaxRequests
  /\ nReceived' = nReceived + 1
  /\ doc' = ensure_user_doc(doc)
  /\ req' = [req EXCEPT ![p] = rq]
  /\ loc' = [loc EXCEPT ![p] = [NoLoc EXCEPT !.message = Strip(rq.message)]]
  /\ calls' = [calls EXCEPT ![p] = NoCalls]
  /\ pushed' = [pushed EXCEPT ![p] = <<>>]
  /\ pc' = [pc EXCEPT ![p] = IF rq.reset THEN "reset" ELSE after_reset_pc(rq)]
  /\ resp' = [resp EXCEPT ![p] = IF rq.reset THEN NoResp ELSE after_reset_resp(rq)]
  /\ UNCHANGED <<clock, returned, written, nudges, lastReset,
                 arg, verdict>>

\* `if req.reset: await reset_user(col, user_id)`
ResetUser(p) ==
  /\ pc[p] = "reset"
  /\ doc' = reset_user(doc)
  /\ lastReset' = clock
  /\ written' = NoTokens
  /\ pc' = [pc EXCEPT ![p] = after_reset_pc(req[p])]
  /\ resp' = [resp EXCEPT ![p] = after_reset_resp(req[p])]
  /\ UNCHANGED <<clock, req, loc, calls, pushed, nReceived, returned, nudges,
                 arg, verdict>>

\* Settings branch: `await col.update_one(... {"$set": {"settings": ...}})`
SaveSettings(p) ==
  /\ pc[p] = "save_settings"
  /\ doc' = set_settings(doc, req[p].role, req[p].tone, req[p].length)
  /\ pc' = [pc EXCEPT ![p] = "read_settings"]
  /\ UNCHANGED <<clock, req, loc, resp, calls, pushed, nReceived, returned,
                 written, nudges, lastReset,
                 arg, verdict>>

\* Settings branch: `doc = await col.find_one(...)` and the response.
ReadSettings(p) ==
  /\ pc[p] = "read_settings"
  /\ resp' = [resp EXCEPT ![p] =
       [status |-> 200, mode |-> "settings", answer |-> <<SETTINGS_SAVED>>,
        usage |-> ResponseUsage(doc.usage), effective_settings |-> doc.settings]]
  /\ pc' = [pc EXCEPT ![p] = "done"]
  /\ UNCHANGED <<doc, clock, req, loc, calls, pushed, nReceived, returned,
                 written, nudges, lastReset,
                 arg, verdict>>

\* `await push_msg(col, user_id, "user", message)`, then the email is
\* looked for in the message.
PushUser(p) ==
  /\ pc[p] = "push_user"
  /\ clock' = clock + 1
  /\ doc' = push_msg(doc, "user", loc[p].message, clock + 1)
  /\ pushed' = [pushed EXCEPT ![p] = Append(@, [role |-> "user", at |-> clock + 1])]
  /\ IF extract_email_from_text(loc[p].message) # NoText
     THEN /\ pc' = [pc EXCEPT ![p] = "add_mail"]
          /\ loc' = loc
     ELSE /\ pc' = [pc EXCEPT ![p] = after_mail_pc(loc[p].message)]
          /\ loc' = [loc EXCEPT ![p] = after_mail_loc(@)]
  /\ UNCHANGED <<req, resp, calls, nReceived, returned, written, nudges, lastReset,
                 arg, verdict>>

\* `await col.update_one(... {"$addToSet": {"mail": email}})`
AddMail(p) ==
  /\ pc[p] = "add_mail"
  /\ doc' = add_mail(doc, extract_email_from_text(loc[p].message))
  /\ pc' = [pc EXCEPT ![p] = after_mail_pc(loc[p].message)]
  /\ loc' = [loc EXCEPT ![p] = after_mail_loc(@)]
  /\ UNCHANGED <<clock, req, resp, calls, pushed, nReceived, returned, written,
                 nudges, lastReset,
                 arg, verdict>>

\* RAG flow: `doc = await col.find_one(...)`; `usage = doc["usage"]`
ReadDoc(p) ==
  /\ pc[p] = "read_doc"
  /\ loc' = [loc EXCEPT ![p].usage = doc.usage,
                         ![p].settings = stored_settings(doc)]
  /\ pc' = [pc EXCEPT ![p] = "retrieve"]
  /\ UNCHANGED <<doc, clock, req, resp, calls, pushed, nReceived, returned,
                 written, nudges, lastReset,
                 arg, verdict>>

\* `r = await retrieve_context(...)`: the embedding call, then the index
\* query; an exception of either ends the request. On return the local
\* usage is updated and an empty context selects the fallback reply.
Retrieve(p) ==
  /\ pc[p] = "retrieve"
  /\ \E o \in RetrieveOutcomes :
       LET r == retrieve_context(loc[p].settings.length, DEFAULT_SCORE_THRESHOLD,
                                 o.emb_tokens, o.matches)
           u == usage_after_retrieval(loc[p].usage, r.emb_tokens)
           used == [top_k |-> top_k(loc[p].settings.length),
                    max_context_chars |-> max_context_chars(loc[p].settings.length)]
       IN
       /\ calls' = [calls EXCEPT ![p].embed = @ + 1,
                                 ![p].index = @ + (IF o.kind = "embed_fails" THEN 0 ELSE 1)]
       /\ returned' = [returned EXCEPT !.emb_tokens = @ + o.emb_tokens]
       /\ IF o.kind # "ok"
          THEN /\ pc' = [pc EXCEPT ![p] = "done"]
               /\ resp' = [resp EXCEPT ![p] = ErrorResp(500)]
               /\ loc' = loc
          ELSE /\ resp' = resp
               /\ IF Strip(r.context) = <<>>
                  THEN /\ loc' = [loc EXCEPT
                            ![p].r = [context |-> r.context, emb_tokens |-> r.emb_tokens],
                            ![p].retrieval = used,
                            ![p].usage = u,
                            ![p].answer = fallback_not_found(loc[p].settings.length),
                            ![p].path = "no_context"]
                       /\ pc' = [pc EXCEPT ![p] = "nudge_read"]
                  ELSE /\ loc' = [loc EXCEPT
                            ![p].r = [context |-> r.context, emb_tokens |-> r.emb_tokens],
                            ![p].retrieval = used,
                            ![p].usage = u]
                       /\ pc' = [pc EXCEPT ![p] = "llm"]
  /\ UNCHANGED <<doc, clock, req, pushed, nReceived, written, nudges, lastReset,
                 arg, verdict>>

\* `ans, in_tok, out_tok = await answer_with_llm(..., history=[], ...)`.
\* LENGTH_SETTINGS[length] raises KeyError for an unknown length before the
\* call is made; an exception of the call ends the request.
Llm(p) ==
  /\ pc[p] = "llm"
  /\ IF loc[p].settings.length \notin DOMAIN LENGTH_SETTINGS
     THEN /\ pc' = [pc EXCEPT ![p] = "done"]
          /\ resp' = [resp EXCEPT ![p] = ErrorResp(500)]
          /\ UNCHANGED <<loc, calls, returned>>
     ELSE \E o \in LlmOutcomes :
          /\ calls' = [calls EXCEPT ![p].llm = @ + 1]
          /\ returned' = [returned EXCEPT !.chat_in_tokens = @ + o.in_tok,
                                          !.chat_out_tokens = @ + o.out_tok]
          /\ LET call == [made |-> TRUE,
                          system_prompt |-> build_system_prompt(loc[p].settings),
                          history |-> llm_history(<<>>),
                          max_out |-> LENGTH_SETTINGS[loc[p].settings.length].max_out]
             IN IF o.kind = "llm_fails"
                THEN /\ pc' = [pc EXCEPT ![p] = "done"]
                     /\ resp' = [resp EXCEPT ![p] = ErrorResp(500)]
                     /\ loc' = [loc EXCEPT ![p].llm = call]
                ELSE /\ pc' = [pc EXCEPT ![p] = "nudge_read"]
                     /\ resp' = resp
                     /\ loc' = [loc EXCEPT
                          ![p].llm = call,
                          ![p].in_tok = o.in_tok,
                          ![p].out_tok = o.out_tok,
                          ![p].usage = usage_after_llm(@, o.in_tok, o.out_tok),
                          ![p].answer = <<LLM_ANSWER>>,
                          ![p].path = "generate"]
  /\ UNCHANGED <<doc, clock, req, pushed, nReceived, written, nudges, lastReset,
                 arg, verdict>>

\* maybe_append_email_prompt: `doc = await col.find_one(...) or {}`; when
\* the flag is set the answer is returned as it is.
NudgeRead(p) ==
  /\ pc[p] = "nudge_read"
  /\ loc' = [loc EXCEPT ![p].flag = doc.exists /\ doc.first_reply_done]
  /\ pc' = [pc EXCEPT ![p] =
       IF doc.exists /\ doc.first_reply_done THEN "push_assistant" ELSE "nudge_write"]
  /\ UNCHANGED <<doc, clock, req, resp, calls, pushed, nReceived, returned,
                 written, nudges, lastReset,
                 arg, verdict>>

\* maybe_append_email_prompt: `await col.update_one(... first_reply_done:
\* True)` and `return answer + <nudge>`.
NudgeWrite(p) ==
  /\ pc[p] = "nudge_write"
  /\ doc' = set_first_reply_done(doc)
  /\ loc' = [loc EXCEPT ![p].answer = @ \o <<NUDGE>>]
  /\ nudges' = nudges + 1
  /\ pc' = [pc EXCEPT ![p] = "push_assistant"]
  /\ UNCHANGED <<clock, req, resp, calls, pushed, nReceived, returned, written,
                 lastReset,
                 arg, verdict>>

\* `await push_msg(col, user_id, "assistant", answer)`
PushAssistant(p) ==
  /\ pc[p] = "push_assistant"
  /\ clock' = clock + 1
  /\ doc' = push_msg(doc, "assistant", loc[p].answer, clock + 1)
  /\ pushed' = [pushed EXCEPT ![p] = Append(@, [role |-> "assistant", at |-> clock + 1])]
  /\ pc' = [pc EXCEPT ![p] =
       IF loc[p].path = "greeting" THEN "read_final" ELSE "write_usage"]
  /\ UNCHANGED <<req, loc, resp, calls, nReceived, returned, written, nudges,
                 lastReset,
                 arg, verdict>>

\* Greeting flow: `doc = await col.find_one(...)` and the response.
ReadFinal(p) ==
  /\ pc[p] = "read_final"
  /\ resp' = [resp EXCEPT ![p] =
       [status |-> 200, mode |-> "chat", answer |-> loc[p].answer,
        usage |-> ResponseUsage(doc.usage), effective_settings |-> doc.settings]]
  /\ pc' = [pc EXCEPT ![p] = "done"]
  /\ UNCHANGED <<doc, clock, req, loc, calls, pushed, nReceived, returned,
                 written, nudges, lastReset,
                 arg, verdict>>

\* RAG flow: `await col.update_one(... {"$set": {"usage": usage}})` and the
\* response; the no-context response carries no effective settings.
WriteUsage(p) ==
  /\ pc[p] = "write_usage"
  /\ LET u == IF loc[p].path = "no_context" THEN usage_no_context(loc[p].usage)
              ELSE loc[p].usage
     IN /\ doc' = set_usage(doc, u)
        /\ loc' = [loc EXCEPT ![p].usage = u]
        /\ written' =
             [emb_tokens |-> written.emb_tokens + loc[p].r.emb_tokens,
              chat_in_tokens |-> written.chat_in_tokens + loc[p].in_tok,
              chat_out_tokens |-> written.chat_out_tokens + loc[p].out_tok]
        /\ resp' = [resp EXCEPT ![p] =
             [status |-> 200, mode |-> "chat", answer |-> loc[p].answer,
              usage |-> ResponseUsage(u),
              effective_settings |->
                IF loc[p].path = "no_context" THEN NoSettings ELSE loc[p].settings]]
  /\ pc' = [pc EXCEPT ![p] = "done"]
  /\ UNCHANGED <<clock, req, calls, pushed, nReceived, returned, nudges, lastReset,
                 arg, verdict>>

Step(p) ==
  \/ ResetUser(p)
  \/ SaveSettings(p)
  \/ ReadSettings(p)
  \/ PushUser(p)
  \/ AddMail(p)
  \/ ReadDoc(p)
  \/ Retrieve(p)
  \/ Llm(p)
  \/ NudgeRead(p)
  \/ NudgeWrite(p)
  \/ PushAssistant(p)
  \/ ReadFinal(p)
  \/ WriteUsage(p)

\* Requests of the user arrive at any time, also while others are in flight.
Next ==
  \E p \in Procs :
    \/ \E rq \in Requests : Receive(p, rq)
    \/ Step(p)

Spec == Init /\ [][Next]_vars

\* The same handler on a long conversation.
SpecLong == InitLong /\ [][Next]_vars

\* The same handler for a user with usage on record.
SpecUsed == InitUsed /\ [][Next]_vars

\* One request at a time: a request arrives only when no other is in flight.
Quiet == \A q \in Procs : pc[q] \in {"idle", "done"}

NextSeq ==
  \E p \in Procs :
    \/ \E rq \in Requests : Quiet /\ Receive(p, rq)
    \/ Step(p)

SpecSeq == Init /\ [][NextSeq]_vars

\* ------------------------------------------------- is_greeting on its own
\* Texts is_greeting is applied to: the examples "Hi", "  HELLO!!  ",
\* "hey there", "hi there are you open", "" and "price list", and every text
\* of at most MaxTextLen characters over a small alphabet.
GREETING_EXAMPLES ==
  { <<"H", "i">>,
    <<" ", " ", "H", "E", "L", "L", "O", "!", "!", " ", " ">>,
    <<"h", "e", "y", " ", "t", "h", "e", "r", "e">>,
    <<"h", "i", " ", "t", "h", "e", "r", "e", " ", "a", "r", "e", " ", "y", "o", "u", " ", "o", "p", "e", "n">> }

NON_GREETING_EXAMPLES ==
  { <<>>,
    <<"p", "r", "i", "c", "e", " ", "l", "i", "s", "t">> }

GreetingAlphabet == {"h", "i", "H", "y", "o", " ", "!"}

GreetingInputs ==
  GREETING_EXAMPLES \cup NON_GREETING_EXAMPLES
  \cup UNION { [1..n -> GreetingAlphabet] : n \in 0..MaxTextLen }

InitGreeting ==
  \E t \in GreetingInputs :
    /\ arg = t
    /\ verdict = "none"
    /\ doc = NoDoc
    /\ clock = 0
    /\ pc = [p \in Procs |-> "idle"]
    /\ req = [p \in Procs |-> NoReq]
    /\ loc = [p \in Procs |-> NoLoc]
    /\ resp = [p \in Procs |-> NoResp]
    /\ calls = [p \in Procs |-> NoCalls]
    /\ pushed = [p \in Procs |-> <<>>]
    /\ nReceived = 0
    /\ returned = NoTokens
    /\ written = NoTokens
    /\ nudges = 0
    /\ lastReset = -1

\* `is_greeting(text)` is called and returns.
ApplyIsGreeting ==
  /\ verdict = "none"
  /\ verdict' = IF is_greeting(arg) THEN "True" ELSE "False"
  /\ UNCHANGED <<doc, clock, pc, req, loc, resp, calls, pushed, nReceived,
                 returned, written, nudges, lastReset, arg>>

NextGreeting == ApplyIsGreeting

SpecGreeting == InitGreeting /\ [][NextGreeting]_vars

TypeOK ==
  /\ doc.exists \in BOOLEAN
  /\ Len(doc.messages) >= 0
  /\ \A p \in Procs :
       pc[p] \in {"idle", "reset", "save_settings", "read_settings", "push_user",
                  "add_mail", "read_doc", "retrieve", "llm", "nudge_read",
                  "nudge_write", "push_assistant", "read_final", "write_usage",
                  "done"}

\* ================================================================ claims
everReset == lastReset # -1

Last(s) == s[Len(s)]

\* C1: the stored message list never holds more than MAX_MESSAGES_STORE
\* entries, and a push onto a full list evicts exactly the oldest entry, keeps
\* the order of the others and puts the new message last (under any
\* interleaving of the user's requests).
C1_Cap == Len(doc.messages) <= MAX_MESSAGES_STORE

C1_Fifo ==
  clock' # clock =>
    /\ doc'.messages # <<>>
    /\ Last(doc'.messages).created_at = clock'
    /\ IF Len(doc.messages) = MAX_MESSAGES_STORE
       THEN /\ Len(doc'.messages) = MAX_MESSAGES_STORE
            /\ \A i \in 1..(MAX_MESSAGES_STORE - 1) :
                 doc'.messages[i] = doc.messages[i + 1]
       ELSE /\ Len(doc'.messages) = Len(doc.messages) + 1
            /\ \A i \in 1..Len(doc.messages) : doc'.messages[i] = doc.messages[i]

C1_MessagesCapped == [](C1_Cap) /\ [][C1_Fifo]_vars

\* A full list whose oldest entry has been evicted.
C1_Witness ==
  /\ Len(doc.messages) = MAX_MESSAGES_STORE
  /\ doc.messages[1].created_at > 1
  /\ Last(doc.messages).role = "assistant"

\* C2: with one request at a time and no reset, whenever no request is in
\* flight the stored emb_tokens, chat_in_tokens and chat_out_tokens equal the
\* sums of the token counts the embedding and chat-model calls have returned,
\* and total_tokens equals the sum of the three.
C2_Additive ==
  (Quiet /\ ~everReset) =>
    /\ doc.usage.emb_tokens = returned.emb_tokens
    /\ doc.usage.chat_in_tokens = returned.chat_in_tokens
    /\ doc.usage.chat_out_tokens = returned.chat_out_tokens
    /\ doc.usage.total_tokens =
         returned.emb_tokens + returned.chat_in_tokens + returned.chat_out_tokens

\* C3: with no reset, whenever no request is in flight the stored usage holds
\* the token and cost contribution of every turn that has written its usage,
\* also when turns overlapped.
C3_NoLostUpdate ==
  (Quiet /\ ~everReset) =>
    /\ doc.usage.emb_tokens = written.emb_tokens
    /\ doc.usage.chat_in_tokens = written.chat_in_tokens
    /\ doc.usage.chat_out_tokens = written.chat_out_tokens
    /\ doc.usage.total_cost_usd =
         calc_cost(written.emb_tokens, written.chat_in_tokens, written.chat_out_tokens)

\* C4: with no reset, at most one reply of the user has the nudge sentence
\* appended, under any interleaving of chat turns.
C4_NudgeOnce == ~everReset => nudges <= 1

\* C5: in every stored state of the user document total_tokens is the sum of
\* emb_tokens, chat_in_tokens and chat_out_tokens.
C5_TotalIsSum ==
  doc.usage.total_tokens =
    doc.usage.emb_tokens + doc.usage.chat_in_tokens + doc.usage.chat_out_tokens

\* A generated turn and a no-context turn have both written usage.
C5_Witness ==
  /\ \E p \in Procs : pc[p] = "done" /\ loc[p].path = "generate" /\ resp[p].status = 200
  /\ \E p \in Procs : pc[p] = "done" /\ loc[p].path = "no_context" /\ resp[p].status = 200
  /\ doc.usage.total_tokens > 0

\* C6: reset_user empties the messages, zeroes every usage counter and the
\* cost, clears first_reply_done, and leaves the stored settings and the
\* document itself in place.
C6_Step ==
  \A p \in Procs :
    (pc[p] = "reset" /\ pc'[p] # "reset") =>
      /\ doc.exists /\ doc'.exists
      /\ doc'.messages = <<>>
      /\ doc'.usage = ZeroUsage
      /\ doc'.first_reply_done = FALSE
      /\ doc'.settings = doc.settings

C6_ResetFrame == [][C6_Step]_vars

\* A reset has just emptied a long conversation of a user with custom settings.
C6_Witness ==
  /\ \E p \in Procs : req[p].reset /\ pc[p] = "push_user"
  /\ lastReset = MAX_MESSAGES_STORE - 1
  /\ doc.messages = <<>>
  /\ doc.settings.role = "Technical Support Agent"

\* C7: a chat turn whose message is a greeting makes no embedding, index or
\* chat-model call, leaves the stored usage as it is, and appends exactly the
\* user message and then the greeting reply; the first "hi" of a new user
\* leaves a conversation of 2 messages and its reply carries the nudge.
GreetingText == greeting_reply(DEFAULT_ROLE, DEFAULT_TONE, DEFAULT_LENGTH)

\* What holds of a greeting turn in coroutine p.
C7_Turn(p) ==
  /\ calls[p] = NoCalls
  /\ pc[p] = "done" =>
       /\ resp[p].status = 200
       /\ Len(pushed[p]) = 2
       /\ pushed[p][1].role = "user" /\ pushed[p][2].role = "assistant"
       /\ pushed[p][1].at < pushed[p][2].at
       /\ resp[p].answer \in {GreetingText, GreetingText \o <<NUDGE>>}
       /\ (nReceived = 1 /\ clock <= 2 /\ req[p].message = HI) =>
            /\ Len(doc.messages) = 2
            /\ doc.messages[1] = Msg("user", HI, 1)
            /\ doc.messages[2] = Msg("assistant", GreetingText \o <<NUDGE>>, 2)
            /\ resp[p].answer = GreetingText \o <<NUDGE>>

\* Every turn in flight or finished is as described or is not a greeting turn.
C7_State ==
  \A p \in Procs :
    pc[p] # "idle" => (C7_Turn(p) \/ ~is_greeting(loc[p].message))

C7_Frame ==
  \A p \in Procs :
    ( /\ pc'[p] # pc[p]
      /\ pc[p] \in {"push_user", "add_mail", "nudge_read", "nudge_write",
                    "push_assistant", "read_final"}
      /\ is_greeting(loc[p].message) ) => doc'.usage = doc.usage

C7_GreetingShortcut == [](C7_State) /\ [][C7_Frame]_vars

\* The first request of a new user was "hi" and has been answered.
C7_Witness ==
  \E p \in Procs :
    /\ pc[p] = "done" /\ req[p].message = HI /\ nReceived = 1 /\ clock = 2
    /\ Len(doc.messages) = 2
    /\ Last(resp[p].answer) = NUDGE

\* C8: the usage write of a no-context turn raises the stored emb_tokens by
\* the embedding token count of the turn and leaves the stored chat_in_tokens
\* and chat_out_tokens as they are; the answer is fallback_not_found(length)
\* and the chat model was not called.
C8_Step ==
  \A p \in Procs :
    (pc[p] = "write_usage" /\ loc[p].path = "no_context" /\ pc'[p] = "done") =>
      /\ calls[p].llm = 0
      /\ resp'[p].answer \in
           { fallback_not_found(loc[p].settings.length),
             fallback_not_found(loc[p].settings.length) \o <<NUDGE>> }
      /\ doc'.usage.emb_tokens = doc.usage.emb_tokens + loc[p].r.emb_tokens
      /\ doc'.usage.chat_in_tokens = doc.usage.chat_in_tokens
      /\ doc'.usage.chat_out_tokens = doc.usage.chat_out_tokens

C8_NoContextTurn == [][C8_Step]_vars

\* C9: a settings-only request with a complete triple stores the triple,
\* echoes it as the effective settings, and changes neither the number of
\* stored messages nor the usage.
SettingsTriple(rq) == [role |-> rq.role, tone |-> rq.tone, length |-> rq.length]

C9_Step ==
  \A p \in Procs :
    ( /\ Strip(req[p].message) = <<>>
      /\ settings_complete(req[p])
      /\ pc[p] \in {"reset", "save_settings", "read_settings"}
      /\ pc'[p] # pc[p] ) =>
      /\ Len(doc'.messages) = Len(doc.messages)
      /\ doc'.usage = doc.usage
      /\ pc'[p] = "done" =>
           /\ doc'.settings = SettingsTriple(req[p])
           /\ resp'[p].effective_settings = SettingsTriple(req[p])

C9_SettingsOnly == [][C9_Step]_vars

\* C10: a chat turn that ended in a failure of the embedding, index or
\* chat-model call has pushed its user message and no assistant message, and
\* the user message is still stored (unless a reset has run since).
C10_FailureKeepsUserMessage ==
  \A p \in Procs :
    (pc[p] = "done" /\ resp[p].status = 500) =>
      /\ Len(pushed[p]) = 1
      /\ pushed[p][1].role = "user"
      /\ pushed[p][1].at > lastReset =>
           \E i \in 1..Len(doc.messages) :
             doc.messages[i] = Msg("user", loc[p].message, pushed[p][1].at)

\* The chat-model call of a turn failed after retrieval had succeeded, on a
\* conversation the user message filled up to the cap.
C10_Witness ==
  \E p \in Procs :
    /\ pc[p] = "done" /\ resp[p].status = 500 /\ calls[p].llm = 1
    /\ Len(doc.messages) = MAX_MESSAGES_STORE
    /\ Last(doc.messages) = Msg("user", loc[p].message, pushed[p][1].at)

\* The coroutine that takes the next request.
Receiver(p) ==
  /\ pc[p] \in {"idle", "done"}
  /\ \A q \in Procs : q < p => pc[q] \notin {"idle", "done"}

IncompleteSettingsOnly(rq) == Strip(rq.message) = <<>> /\ ~settings_complete(rq)

\* C11: a request without a message whose role, tone or length is missing
\* ends in the 400 error and no step of it writes to the store: no document
\* is created and an existing document is left as it is.
C11_Step ==
  \A p \in Procs :
    /\ ( /\ nReceived' # nReceived
         /\ Receiver(p)
         /\ IncompleteSettingsOnly(req'[p]) ) =>
           /\ doc' = doc
           /\ pc'[p] = "done" => resp'[p].status = 400
    /\ ( /\ pc[p] = "reset"
         /\ pc'[p] # "reset"
         /\ IncompleteSettingsOnly(req[p]) ) =>
           /\ doc' = doc
           /\ resp'[p].status = 400

C11_IncompleteSettingsNoWrite == [][C11_Step]_vars

\* The coroutine handles a non-greeting chat turn and has read the document.
InRag(p) ==
  /\ loc[p].message # <<>>
  /\ ~is_greeting(loc[p].message)
  /\ pc[p] \in {"retrieve", "llm", "nudge_read", "nudge_write", "push_assistant",
                "write_usage", "done"}

\* C12: with one request at a time, a non-greeting chat turn works with the
\* stored settings of the user: the hard default triple when none was ever
\* stored, else the triple stored last; top_k and the context size of the
\* retrieval, the fallback reply, the system prompt and max_out are those of
\* the stored triple.
C12_EffectiveSettings ==
  \A p \in Procs :
    InRag(p) =>
      /\ loc[p].settings = doc.settings
      /\ nReceived = 1 => doc.settings = DefaultSettings
      /\ loc[p].retrieval.top_k # 0 =>
           /\ loc[p].retrieval.top_k = DictGet(LENGTH_TO_TOPK, doc.settings.length, 5)
           /\ loc[p].retrieval.max_context_chars =
                DictGet(LENGTH_TO_CONTEXT, doc.settings.length, 6000)
      /\ loc[p].path = "no_context" =>
           loc[p].answer[1] = fallback_not_found(doc.settings.length)[1]
      /\ loc[p].llm.made =>
           /\ loc[p].llm.system_prompt = build_system_prompt(doc.settings)
           /\ loc[p].llm.max_out = LENGTH_SETTINGS[doc.settings.length].max_out

\* After a settings update a generated turn ran with the stored triple.
C12_Witness ==
  \E p \in Procs :
    /\ pc[p] = "done" /\ loc[p].path = "generate"
    /\ doc.settings = [role |-> "Technical Support Agent", tone |-> "Casual",
                       length |-> "Long"]
    /\ loc[p].retrieval.top_k = 6
    /\ loc[p].llm.max_out = 520
    /\ loc[p].llm.system_prompt.tones = <<"Casual">>

\* C13: with one request at a time and no reset, a turn whose chat-model
\* call failed after retrieval had returned has left its embedding tokens
\* in the stored usage.
C13_EmbeddingPersisted ==
  \A p \in Procs :
    ( /\ pc[p] = "done"
      /\ resp[p].status = 500
      /\ calls[p].llm = 1
      /\ ~everReset ) =>
        /\ loc[p].r.emb_tokens > 0
        /\ doc.usage.emb_tokens >= loc[p].r.emb_tokens

\* C14: the nudge sentence is appended only to a reply of a user who has no
\* email on file (stored mail empty, the email of the current message
\* included).
C14_Step == nudges' # nudges => doc.mail = <<>>

C14_NoNudgeWithMail == [][C14_Step]_vars

\* C15: at most one email is ever stored, and a stored email is not changed
\* or joined by an email of a later message.
C15_Step ==
  /\ Len(doc'.mail) <= 1
  /\ doc.mail # <<>> => doc'.mail = doc.mail

C15_CaptureOnce == [][C15_Step]_vars

\* C16: no step other than a reset lowers a stored usage counter or the
\* stored cost, under any interleaving of the user's requests.
C16_Step ==
  (~ \E p \in Procs : pc[p] = "reset" /\ pc'[p] # "reset") =>
    /\ doc'.usage.emb_tokens >= doc.usage.emb_tokens
    /\ doc'.usage.chat_in_tokens >= doc.usage.chat_in_tokens
    /\ doc'.usage.chat_out_tokens >= doc.usage.chat_out_tokens
    /\ doc'.usage.total_tokens >= doc.usage.total_tokens
    /\ doc'.usage.total_cost_usd >= doc.usage.total_cost_usd

C16_UsageMonotonic == [][C16_Step]_vars

\* The last HISTORY_FOR_LLM stored messages cut to the last 6, as the role
\* and content the chat model is sent.
HistoryWindow(ms) ==
  LET w == SliceLast(SliceLast(ms, HISTORY_FOR_LLM), 6)
  IN [i \in 1..Len(w) |-> [role |-> w[i].role, content |-> w[i].content]]

AllButLast(ms) == IF ms = <<>> THEN <<>> ELSE SubSeq(ms, 1, Len(ms) - 1)

\* C17: the history a chat-model call is sent is the last 50 stored messages
\* cut to the last 6, in stored order (with or without the user message of
\* the turn itself), and never more than 6 messages.
C17_Step ==
  \A p \in Procs :
    (pc[p] = "llm" /\ loc'[p].llm.made) =>
      /\ Len(loc'[p].llm.history) <= 6
      /\ loc'[p].llm.history \in
           { HistoryWindow(doc.messages), HistoryWindow(AllButLast(doc.messages)) }

C17_HistoryWindow == [][C17_Step]_vars

\* The stored triple with every value that is not enumerated replaced by its
\* default.
Clamped(st) ==
  [role |-> IF st.role \in ROLE_PROMPTS THEN st.role ELSE DEFAULT_ROLE,
   tone |-> IF st.tone \in TONE_GUIDE THEN st.tone ELSE DEFAULT_TONE,
   length |-> IF st.length \in DOMAIN LENGTH_SETTINGS THEN st.length
              ELSE DEFAULT_LENGTH]

\* C18: a non-greeting chat turn of a user whose stored role, tone or length
\* is not an enumerated value behaves as for the default value: retrieval
\* runs with the top_k and context size of the clamped length, a no-context
\* turn answers with the fallback of the clamped length, and a turn that
\* reaches the chat-model step makes the call with the system prompt and
\* max_out of the clamped triple instead of ending in an error.
C18_Step ==
  \A p \in Procs :
    /\ (pc[p] = "retrieve" /\ pc'[p] \in {"llm", "nudge_read"}) =>
         /\ loc'[p].retrieval.top_k = LENGTH_TO_TOPK[Clamped(loc[p].settings).length]
         /\ loc'[p].retrieval.max_context_chars =
              LENGTH_TO_CONTEXT[Clamped(loc[p].settings).length]
         /\ pc'[p] = "nudge_read" =>
              loc'[p].answer = fallback_not_found(Clamped(loc[p].settings).length)
    /\ (pc[p] = "llm" /\ pc'[p] # "llm") =>
         /\ loc'[p].llm.made
         /\ loc'[p].llm.system_prompt = build_system_prompt(Clamped(loc[p].settings))
         /\ loc'[p].llm.max_out =
              LENGTH_SETTINGS[Clamped(loc[p].settings).length].max_out

C18_ClampsToDefaults == [][C18_Step]_vars

\* C19: the greeting reply of a chat turn is greeting_reply of the tone and
\* length of the user's effective (stored) settings.
C19_GreetingBySettings ==
  \A p \in Procs :
    ( /\ pc[p] = "done"
      /\ is_greeting(loc[p].message)
      /\ resp[p].status = 200 ) =>
        LET st == resp[p].effective_settings
            reply == greeting_reply(st.role, st.tone, st.length)
        IN resp[p].answer \in {reply, reply \o <<NUDGE>>}

\* C20: is_greeting(text) is true exactly when the text, lowercased, with
\* punctuation removed, whitespace collapsed and trimmed, is non-empty and is
\* a phrase of the greeting set or starts with such a phrase and a space;
\* "Hi", "  HELLO!!  ", "hey there" and "hi there are you open" are
\* greetings, "" and "price list" are not.
C20_IsGreeting ==
  verdict # "none" =>
    LET t == Strip(CollapseSpaces(RemovePunct(Lower(arg)))) IN
    /\ (verdict = "True") <=>
          ( /\ t # <<>>
            /\ \/ t \in GREETINGS
               \/ \E g \in GREETINGS : StartsWith(t, g \o <<" ">>) )
    /\ arg \in GREETING_EXAMPLES => verdict = "True"
    /\ arg \in NON_GREETING_EXAMPLES => verdict = "False"

\* "  HELLO!!  " was found to be a greeting.
C20_Witness ==
  /\ verdict = "True"
  /\ Len(arg) = 11
  /\ arg[3] = "H"
  /\ arg[8] = "!"

\* C21: in every stored state of the user document total_cost_usd is
\* emb_tokens * EMB_RATE + chat_in_tokens * CHAT_IN_RATE + chat_out_tokens *
\* CHAT_OUT_RATE of the counters stored beside it (rates in units of 1e-8
\* USD per token), under any interleaving of the user's requests.
C21_CostMatchesCounters ==
  doc.usage.total_cost_usd =
    calc_cost(doc.usage.emb_tokens, doc.usage.chat_in_tokens,
              doc.usage.chat_out_tokens)

\* A generated turn has written its usage: embedding and chat tokens are
\* stored with their cost.
C21_Witness ==
  /\ \E p \in Procs : pc[p] = "done" /\ loc[p].path = "generate" /\ resp[p].status = 200
  /\ doc.usage.emb_tokens > 0
  /\ doc.usage.chat_out_tokens > 0
  /\ doc.usage.total_cost_usd > 0

\* C22: once a reset has run, the stored usage holds no more than what the
\* turns have contributed since that reset, also when a turn that had read
\* the usage before the reset writes after it: no token count and no cost
\* from before the reset is stored again.
C22_ResetNotUndone ==
  everReset =>
    /\ doc.usage.emb_tokens <= written.emb_tokens
    /\ doc.usage.chat_in_tokens <= written.chat_in_tokens
    /\ doc.usage.chat_out_tokens <= written.chat_out_tokens
    /\ doc.usage.total_cost_usd <=
         calc_cost(written.emb_tokens, written.chat_in_tokens, written.chat_out_tokens)

\* C23: the stored mail list never holds an address twice and holds only
\* lowercased addresses, whatever the letter case of the messages and however
\* the turns that carry them interleave.
C23_MailSet ==
  /\ \A i, j \in 1..Len(doc.mail) : doc.mail[i] = doc.mail[j] => i = j
  /\ \A i \in 1..Len(doc.mail) : doc.mail[i] = Lower(doc.mail[i])

\* "hi a@b.io" and "hi A@b.io" have both been stored by finished turns: one
\* entry.
C23_Witness ==
  /\ Quiet
  /\ \E p, q \in Procs :
       /\ loc[p].message = HI_MAIL /\ pushed[p] # <<>>
       /\ loc[q].message = MAIL_UPPER /\ pushed[q] # <<>>
  /\ doc.mail = << <<"a", "@", "b", ".", "i", "o">> >>

====
